---- MODULE Spec2Model ----
(***************************************************************************)
(* Model of fdstools/tools/bgestimate.py: the profile-mixture solver       *)
(* (solve_profile_mixture_single) and the evidence aggregator              *)
(* (add_sample_data).                                                      *)
(*                                                                         *)
(* Numbers.  The solver computes in IEEE double precision.  A number is    *)
(* modelled as a pair <<num, den>> in lowest terms with den >= 0:          *)
(*   den > 0          the rational num/den                                 *)
(*   <<1, 0>>         +inf        <<-1, 0>>   -inf                         *)
(*   <<0, 0>>         NaN                                                  *)
(* so that the outcomes of a division by zero and their propagation are    *)
(* those of the floating-point operations.  Rounding is not modelled: the  *)
(* arithmetic is exact, and a value whose exact computation leaves the     *)
(* integer range of the model checker (MaxMagnitude) is OutOfRange; a step *)
(* that would store such a value is not taken, which bounds the depth to   *)
(* which a slowly converging run is followed.  Signed zeros are not        *)
(* modelled: the divisors of the source are counts, sums of squares and    *)
(* residuals, never -0.0.                                                  *)
(* Matrices are functions with the 0-based indices of the source.          *)
(***************************************************************************)
EXTENDS Integers, Sequences, FiniteSets, TLC

\* ------------------------------------------------------------------ bounds
MaxAlleles == 2
MaxProfileSize == 3
MaxSamples == 2
MaxCount == 2
MaxInjectCount == 1
MaxMagnitude == 1000000000
MaxCalls == 2
MinPctChoices == {50}
MinAbsChoices == {1, 2}
MinSamplePctChoices == {50, 80}

\* -------------------------------------------------------- program constants
MaxOuterIterations == 200
MaxSweeps == 200
MaxVarianceSweeps == 200

\* ----------------------------------------------------------------- numbers
Abs(a) == IF a < 0 THEN -a ELSE a

Sign(a) == IF a < 0 THEN -1 ELSE IF a > 0 THEN 1 ELSE 0

RECURSIVE GCD(_, _)
GCD(a, b) == IF b = 0 THEN a ELSE GCD(b, a % b)

Norm(a, b) ==
  IF b = 0 THEN <<Sign(a), 0>>
  ELSE LET g == GCD(Abs(a), Abs(b))
       IN  IF b < 0 THEN <<(-a) \div g, (-b) \div g>> ELSE <<a \div g, b \div g>>

Num(a) == <<a, 1>>
Zero == <<0, 1>>
One == <<1, 1>>
Hundred == <<100, 1>>
PosInf == <<1, 0>>
NegInf == <<-1, 0>>
NaN == <<0, 0>>
OutOfRange == <<0, -1>>
\* sys.float_info.max, the initial value of the scores
FloatMax == <<2, 0>>
\* the relative decrease below which a loop stops
Tolerance == <<1, 10000>>

IsNaN(x) == x = NaN
IsInf(x) == x = PosInf \/ x = NegInf
IsFinite(x) == x[2] > 0
InRange(x) == x # OutOfRange
\* Python truth value of a float: only 0.0 is false (NaN and inf are true).
IsZero(x) == x = Zero

\* a * b stays within the integers of the model
Fits(a, b) == b = 0 \/ Abs(a) <= MaxMagnitude \div Abs(b)

RNeg(x) == IF x = OutOfRange THEN x ELSE <<-x[1], x[2]>>

RAdd(x, y) ==
  IF x = OutOfRange \/ y = OutOfRange THEN OutOfRange
  ELSE IF IsNaN(x) \/ IsNaN(y) THEN NaN
  ELSE IF IsInf(x) THEN (IF IsInf(y) /\ y # x THEN NaN ELSE x)
  ELSE IF IsInf(y) THEN y
  ELSE LET g == GCD(x[2], y[2])
           a == y[2] \div g
           b == x[2] \div g
       IN  IF Fits(x[1], a) /\ Fits(y[1], b) /\ Fits(b, y[2])
           THEN Norm(x[1] * a + y[1] * b, b * y[2])
           ELSE OutOfRange

RSub(x, y) == RAdd(x, RNeg(y))

RMul(x, y) ==
  IF x = OutOfRange \/ y = OutOfRange THEN OutOfRange
  ELSE IF x[2] = 0 \/ y[2] = 0 THEN Norm(Sign(x[1]) * Sign(y[1]), 0)
  ELSE LET g1 == GCD(Abs(x[1]), y[2])
           g2 == GCD(Abs(y[1]), x[2])
           n1 == x[1] \div g1
           n2 == y[1] \div g2
           d1 == x[2] \div g2
           d2 == y[2] \div g1
       IN  IF Fits(n1, n2) /\ Fits(d1, d2) THEN Norm(n1 * n2, d1 * d2)
           ELSE OutOfRange

\* 1/x in floating point: 1/0 = +inf, 1/inf = 0, 1/NaN = NaN.
RInv(x) ==
  IF x = OutOfRange THEN x
  ELSE IF x[1] < 0 THEN <<-x[2], -x[1]>> ELSE <<x[2], x[1]>>

RDiv(x, y) == RMul(x, RInv(y))

RSquare(x) == RMul(x, x)

\* x < y in floating point: false when an operand is NaN
RLt(x, y) ==
  LET d == RSub(x, y)
  IN  IF x = y THEN FALSE ELSE d # OutOfRange /\ d # NaN /\ d[1] < 0

\* tmp[tmp < 0] = 0
Clamp(x) == IF RLt(x, Zero) THEN Zero ELSE x

RECURSIVE RSumTo(_, _)
\* sum of f[0] .. f[k-1], left to right
RSumTo(f, k) == IF k = 0 THEN Zero ELSE RAdd(RSumTo(f, k - 1), f[k - 1])

\* ---------------------------------------------------------------- matrices
Indices(k) == 0 .. (k - 1)

ZeroMatrix(r, c) == [j \in Indices(r) |-> [k \in Indices(c) |-> Zero]]

Rows(M) == Cardinality(DOMAIN M)

\* the (j, k) entry of the matrix product X * Y, X with r columns
MatMulEntry(X, Y, j, k, r) == RSumTo([q \in Indices(r) |-> RMul(X[j][q], Y[q][k])], r)

\* the (j, k) entry of X.T * Y, X and Y with r rows
TransMulEntry(X, Y, j, k, r) == RSumTo([q \in Indices(r) |-> RMul(X[q][j], Y[q][k])], r)

InRangeRow(row) == \A k \in DOMAIN row : InRange(row[k])

InRangeMatrix(M) == \A j \in DOMAIN M : InRangeRow(M[j])

\* ------------------------------------------ solve_profile_mixture_single
VARIABLES
  samples,       \* samples[i][k]: read count of variant k in sample i
  genotypes,     \* genotypes[i]: list of the true alleles of sample i
  n,             \* number of true alleles
  variance,      \* variance estimation requested
  reportfile,    \* a diagnostic sink is given
  pc,            \* position in the function
  A, C, P, V, E, F,
  v, w, p,       \* outer iteration, sweep, row
  prev_score, cur_score, prev_scorex, cur_scorex,
  report,        \* what was written to reportfile
  result         \* the returned value

solverVars == <<samples, genotypes, n, variance, reportfile, pc, A, C, P, V, E, F,
                v, w, p, prev_score, cur_score, prev_scorex, cur_scorex, report, result>>

num_samples == Cardinality(DOMAIN samples)
profile_size == Cardinality(DOMAIN samples[0])

\* P after np.zeros and np.fill_diagonal(P, 100.)
InitialP(nn, m) ==
  [j \in Indices(nn) |-> [k \in Indices(m) |-> IF j = k THEN Hundred ELSE Zero]]

\* (100.0/samples[i][j])/len(genotypes[i]), samples[i][j] # 0
ScaleFactor(s, g, j) == RDiv(RDiv(Hundred, Num(s[j])), Num(Len(g)))

\* C[j, :] += [x * scale_factor for x in samples[i]]
AddScaledSample(M, s, g, j) ==
  [M EXCEPT ![j] = [k \in DOMAIN s |->
                      RAdd(M[j][k], RMul(Num(s[k]), ScaleFactor(s, g, j)))]]

RECURSIVE EnterGenotype(_, _, _, _)
\* the loop over j in genotypes[i], from position a on; a zero count raises
\* ZeroDivisionError and the allele is skipped
EnterGenotype(M, s, g, a) ==
  IF a > Len(g) THEN M
  ELSE IF s[g[a]] = 0 THEN EnterGenotype(M, s, g, a + 1)
  ELSE EnterGenotype(AddScaledSample(M, s, g, g[a]), s, g, a + 1)

RECURSIVE EnterSamples(_, _, _, _)
\* C after samples 0 .. i-1 were entered
EnterSamples(M, ss, gs, i) ==
  IF i = 0 THEN M
  ELSE EnterGenotype(EnterSamples(M, ss, gs, i - 1), ss[i - 1], gs[i - 1], 1)

RECURSIVE MissingInGenotype(_, _, _, _)
MissingInGenotype(s, g, i, a) ==
  IF a > Len(g) THEN << >>
  ELSE (IF s[g[a]] = 0 THEN << <<"Sample does not have allele", i, g[a]>> >> ELSE << >>)
       \o MissingInGenotype(s, g, i, a + 1)

RECURSIVE MissingAlleles(_, _, _)
\* the lines "Sample %i does not have allele %i" of samples 0 .. i-1
MissingAlleles(ss, gs, i) ==
  IF i = 0 THEN << >>
  ELSE MissingAlleles(ss, gs, i - 1) \o MissingInGenotype(ss[i - 1], gs[i - 1], i - 1, 1)

\* ---- nnls of ..lib for two unknowns: minimise |x1*c1 + x2*c2 - b|^2, x >= 0
Dot2(u, u2) == RAdd(RMul(u[1], u2[1]), RMul(u[2], u2[2]))

Residual2(c1, c2, b, x) ==
  RAdd(RSquare(RSub(RAdd(RMul(x[1], c1[1]), RMul(x[2], c2[1])), b[1])),
       RSquare(RSub(RAdd(RMul(x[1], c1[2]), RMul(x[2], c2[2])), b[2])))

NNLS2(c1, c2, b) ==
  LET det == RSub(RMul(c1[1], c2[2]), RMul(c1[2], c2[1]))
      u1 == RDiv(RSub(RMul(b[1], c2[2]), RMul(b[2], c2[1])), det)
      u2 == RDiv(RSub(RMul(c1[1], b[2]), RMul(c1[2], b[1])), det)
      e1 == <<IF IsZero(Dot2(c1, c1)) THEN Zero
              ELSE Clamp(RDiv(Dot2(c1, b), Dot2(c1, c1))), Zero>>
      e2 == <<Zero, IF IsZero(Dot2(c2, c2)) THEN Zero
                    ELSE Clamp(RDiv(Dot2(c2, b), Dot2(c2, c2)))>>
      r1 == Residual2(c1, c2, b, e1)
      r2 == Residual2(c1, c2, b, e2)
      all == {c1[1], c1[2], c2[1], c2[2], b[1], b[2]}
  IN  IF OutOfRange \in all THEN <<OutOfRange, OutOfRange>>
      ELSE IF \E x \in all : ~IsFinite(x) THEN <<NaN, NaN>>
      ELSE IF OutOfRange \in {det, u1, u2, e1[1], e2[2], r1, r2}
           THEN <<OutOfRange, OutOfRange>>
      ELSE IF ~IsZero(det) /\ ~RLt(u1, Zero) /\ ~RLt(u2, Zero) THEN <<u1, u2>>
      ELSE IF RLt(r2, r1) THEN e2 ELSE e1

\* Ax without the division by len(genotypes[i])
BalanceAxUnhalved(Pm, s, g) ==
  LET x == NNLS2(<<Pm[g[1]][g[1]], Pm[g[1]][g[2]]>>,
                 <<Pm[g[2]][g[1]], Pm[g[2]][g[2]]>>,
                 <<Num(s[g[1]]), Num(s[g[2]])>>)
  IN  [j \in 1..2 |-> [k \in 1..2 |-> RMul(RDiv(Hundred, Num(s[g[j]])), x[k])]]

\* Ax = (100./Cx/len(genotypes[i])).T * nnls(Px.T, Cx.T).T for a sample with
\* two true alleles; the result is indexed by positions 1, 2 of the genotype
BalanceAx(Pm, s, g) ==
  LET x == NNLS2(<<Pm[g[1]][g[1]], Pm[g[1]][g[2]]>>,
                 <<Pm[g[2]][g[1]], Pm[g[2]][g[2]]>>,
                 <<Num(s[g[1]]), Num(s[g[2]])>>)
  IN  [j \in 1..2 |-> [k \in 1..2 |->
         RMul(RDiv(RDiv(Hundred, Num(s[g[j]])), Num(Len(g))), x[k])]]

\* A[g0, g0] = 1 instead of += 1 for a homozygous sample
AddBalanceAssigned(M, Pm, s, g) ==
  IF Len(g) = 1
  THEN [M EXCEPT ![g[1]][g[1]] = One]
  ELSE LET Ax == BalanceAx(Pm, s, g)
           pos(j) == CHOOSE a \in 1..2 : g[a] = j
           in(j) == \E a \in 1..2 : g[a] = j
       IN  [j \in DOMAIN M |-> [k \in DOMAIN M |->
              IF in(j) /\ in(k) THEN RAdd(M[j][k], Ax[pos(j)][pos(k)]) ELSE M[j][k]]]

\* A after the sample (s, g) was entered: A[g[j], g[k]] += Ax[j, k]
AddBalance(M, Pm, s, g) ==
  IF Len(g) = 1
  THEN [M EXCEPT ![g[1]][g[1]] = RAdd(@, One)]
  ELSE LET Ax == BalanceAx(Pm, s, g)
           pos(j) == CHOOSE a \in 1..2 : g[a] = j
           in(j) == \E a \in 1..2 : g[a] = j
       IN  [j \in DOMAIN M |-> [k \in DOMAIN M |->
              IF in(j) /\ in(k) THEN RAdd(M[j][k], Ax[pos(j)][pos(k)]) ELSE M[j][k]]]

RECURSIVE FillA(_, _, _, _, _)
\* A after A[:, :] = 0 and samples 0 .. i-1
FillA(nn, Pm, ss, gs, i) ==
  IF i = 0 THEN ZeroMatrix(nn, nn)
  ELSE AddBalance(FillA(nn, Pm, ss, gs, i - 1), Pm, ss[i - 1], gs[i - 1])

\* E = A.T * A
NormalE(Am, nn) ==
  [j \in Indices(nn) |-> [k \in Indices(nn) |-> TransMulEntry(Am, Am, j, k, Rows(Am))]]

\* F = A.T * C
NormalF(Am, Cm, nn, m) ==
  [j \in Indices(nn) |-> [k \in Indices(m) |-> TransMulEntry(Am, Cm, j, k, Rows(Am))]]

\* E[p, nn] * P[nn, :] at column k: the sum over the other alleles
OtherRows(Em, Xm, row, k, nn) ==
  RSumTo([q \in Indices(nn) |-> IF q = row THEN Zero ELSE RMul(Em[row][q], Xm[q][k])], nn)

\* the degenerate branch as P[p, :] = 0
ProfileRowZeroed(Em, Fm, Pm, row, nn) ==
  IF IsZero(Em[row][row])
  THEN [k \in DOMAIN Pm[row] |-> Zero]
  ELSE [k \in DOMAIN Pm[row] |->
          IF k = row THEN Hundred
          ELSE Clamp(RDiv(RSub(Fm[row][k], OtherRows(Em, Pm, row, k, nn)), Em[row][row]))]

\* without tmp[tmp < 0] = 0
ProfileRowUnclamped(Em, Fm, Pm, row, nn) ==
  IF IsZero(Em[row][row])
  THEN [k \in DOMAIN Pm[row] |-> IF k \in Indices(nn) /\ k # row THEN Zero ELSE Pm[row][k]]
  ELSE [k \in DOMAIN Pm[row] |->
          IF k = row THEN Hundred
          ELSE RDiv(RSub(Fm[row][k], OtherRows(Em, Pm, row, k, nn)), Em[row][row])]

\* the new row p of P
ProfileRow(Em, Fm, Pm, row, nn) ==
  IF IsZero(Em[row][row])
  THEN \* P[p, nn] = 0
       [k \in DOMAIN Pm[row] |-> IF k \in Indices(nn) /\ k # row THEN Zero ELSE Pm[row][k]]
  ELSE [k \in DOMAIN Pm[row] |->
          IF k = row THEN Hundred
          ELSE Clamp(RDiv(RSub(Fm[row][k], OtherRows(Em, Pm, row, k, nn)), Em[row][row]))]

\* np.square(C - A * P).sum()
Score(Cm, Am, Xm, nn, m) ==
  LET r == Rows(Cm)
      cell(a) == RSquare(RSub(Cm[a \div m][a % m],
                              MatMulEntry(Am, Xm, a \div m, a % m, nn)))
  IN  RSumTo([a \in Indices(r * m) |-> cell(a)], r * m)

\* (prev - cur)/prev; with prev = sys.float_info.max the quotient of a
\* finite cur is 1.0
ScoreChange(prev, cur) ==
  IF prev = FloatMax
  THEN (IF cur = OutOfRange THEN OutOfRange
        ELSE IF IsFinite(cur) THEN One
        ELSE IF cur = PosInf THEN NegInf ELSE NaN)
  ELSE RDiv(RSub(prev, cur), prev)

\* the test written as not (score_change >= 0.0001)
\* with a reportfile only a perfect fit ends the loop
ConvergedUnlessReporting(prev, cur) ==
  IsZero(cur) \/ (~reportfile /\ RLt(ScoreChange(prev, cur), Tolerance))

ConvergedUnlessGrowing(prev, cur) == IsZero(cur) \/ ~RLt(Tolerance, ScoreChange(prev, cur))

\* not cur_score or score_change < 0.0001
Converged(prev, cur) == IsZero(cur) \/ RLt(ScoreChange(prev, cur), Tolerance)

\* ------------------------------------------------------ variance estimation
\* scale_factors = (100./Cx[:, genotypes[i]]/len(genotypes[i])).T, a numpy
\* division: a zero count gives inf
VarScale(s, g, j) == RDiv(RDiv(Hundred, Num(s[g[j]])), Num(Len(g)))

\* Ax of lines 202-207, indexed by the positions of the genotype
VarAx(Pm, s, g) ==
  IF Len(g) = 1 THEN [j \in 1..1 |-> [k \in 1..1 |-> One]] ELSE BalanceAx(Pm, s, g)

\* row j of np.square(scale_factors * Cx - Ax * Px)
SquaredDeviations(Pm, s, g, j, Ax) ==
  LET fit(c) == RSumTo([a \in Indices(Len(g)) |-> RMul(Ax[j][a + 1], Pm[g[a + 1]][c])],
                       Len(g))
  IN  [c \in DOMAIN s |-> RSquare(RSub(RMul(VarScale(s, g, j), Num(s[c])), fit(c)))]

\* the row of A appended for allele position j of a sample
SquaredBalance(g, j, nn, Ax) ==
  [q \in Indices(nn) |->
     IF \E a \in 1..Len(g) : g[a] = q
     THEN RSquare(Ax[j][CHOOSE a \in 1..Len(g) : g[a] = q])
     ELSE Zero]

\* the rows appended to A and C by one sample whose balance is Ax
SampleRows(Pm, s, g, nn, Ax) ==
  [j \in 1..Len(g) |->
     [a |-> SquaredBalance(g, j, nn, Ax), c |-> SquaredDeviations(Pm, s, g, j, Ax)]]

RECURSIVE VarianceRows(_, _, _, _, _)
\* the rows appended to A and C by samples 0 .. i-1, one per allele per sample
VarianceRows(Pm, ss, gs, nn, i) ==
  IF i = 0 THEN << >>
  ELSE VarianceRows(Pm, ss, gs, nn, i - 1)
       \o SampleRows(Pm, ss[i - 1], gs[i - 1], nn, VarAx(Pm, ss[i - 1], gs[i - 1]))

\* without tmp[P[p, :] == 0] = 0
VarianceRowUnmasked(Em, Fm, Vm, Pm, row, nn) ==
  IF IsZero(Em[row][row])
  THEN [k \in DOMAIN Vm[row] |-> Zero]
  ELSE [k \in DOMAIN Vm[row] |->
          IF k = row THEN Zero
          ELSE Clamp(RDiv(RSub(Fm[row][k], OtherRows(Em, Vm, row, k, nn)), Em[row][row]))]

\* the new row p of V
VarianceRow(Em, Fm, Vm, Pm, row, nn) ==
  IF IsZero(Em[row][row])
  THEN [k \in DOMAIN Vm[row] |-> Zero]
  ELSE [k \in DOMAIN Vm[row] |->
          IF k = row THEN Zero
          ELSE IF IsZero(Pm[row][k]) THEN Zero
          ELSE Clamp(RDiv(RSub(Fm[row][k], OtherRows(Em, Vm, row, k, nn)), Em[row][row]))]

\* reduce(lambda x,y:x+len(y)-1, genotypes, 0): some sample is heterozygous
RECURSIVE ExtraAlleles(_, _)
ExtraAlleles(gs, i) == IF i = 0 THEN 0 ELSE ExtraAlleles(gs, i - 1) + Len(gs[i - 1]) - 1

\* ------------------------------------------------------- add_sample_data
VARIABLES
  data,          \* data[marker]: the aggregated record of a marker
  before,        \* data at the start of the last call of add_sample_data
  outcome,       \* "ok", or the ValueError the last call raised
  calls,         \* number of calls made
  sample_data,   \* the lines of the sample of the last call
  sample_alleles,\* the declared true alleles of the sample of the last call
  min_pct,       \* detection threshold, percentage of the true allele
  min_abs,       \* detection threshold, number of reads
  stage,         \* "adding" samples, or "filtered" by preprocess_data
  min_sample_pct,\* the percentage preprocess_data was called with
  declared,      \* declared[marker]: the allele sets of the admitted samples
  established    \* established[marker]: the true alleles, in the order in
                 \* which the calls made them true alleles

aggVars == <<data, before, outcome, calls, sample_data, sample_alleles, min_pct, min_abs,
             stage, min_sample_pct, declared, established>>

Markers == {"m1", "m2"}
Variants == {"a", "b", "c"}
\* the (marker, allele) pairs a sample file may have a line for
Lines == {<<"m1", "a">>, <<"m1", "b">>, <<"m2", "a">>}
\* [forward, reverse] read counts of the lines of a sample file
ReadPairs == {<<1, 1>>, <<0, 1>>, <<1, 0>>}

Range(f) == {f[x] : x \in DOMAIN f}

\* the orders in which a dict or set with the elements S may be iterated
Orders(S) == {f \in [1..Cardinality(S) -> S] : \A x, y \in DOMAIN f : f[x] = f[y] => x = y}

\* lines 347-354
NewMarker ==
  [true_alleles |-> 0, alleles |-> << >>, profiles_forward |-> << >>,
   profiles_reverse |-> << >>, allele_counts |-> << >>, genotypes |-> << >>]

\* p["alleles"].index(allele), 0-based
IndexOf(seq, x) == (CHOOSE i \in 1..Len(seq) : seq[i] = x) - 1

\* the reverse rows are not extended
AppendVariantForwardOnly(rec, allele) ==
  [rec EXCEPT !.alleles = Append(@, allele),
              !.profiles_forward = [r \in DOMAIN @ |-> Append(@[r], 0)],
              !.allele_counts = [gi \in DOMAIN @ |-> Append(@[gi], 0)]]

\* lines 371-377 and 396-402: a new variant gets a column of zeros
AppendVariant(rec, allele) ==
  [rec EXCEPT !.alleles = Append(@, allele),
              !.profiles_forward = [r \in DOMAIN @ |-> Append(@[r], 0)],
              !.profiles_reverse = [r \in DOMAIN @ |-> Append(@[r], 0)],
              !.allele_counts = [gi \in DOMAIN @ |-> Append(@[gi], 0)]]

\* lines 355-359: the rows and the genotype list of the sample
OpenSample(rec) ==
  [rec EXCEPT !.profiles_forward = Append(@, [k \in 1..Len(rec.alleles) |-> 0]),
              !.profiles_reverse = Append(@, [k \in 1..Len(rec.alleles) |-> 0]),
              !.genotypes = Append(@, << >>)]

\* lines 367-381: enter a declared true allele
DeclareAllele(rec, allele) ==
  LET rec1 == IF allele \in Range(rec.alleles) THEN rec ELSE AppendVariant(rec, allele)
      i == IndexOf(rec1.alleles, allele)
      rec2 == IF i \in DOMAIN rec1.allele_counts THEN rec1
              ELSE [rec1 EXCEPT !.allele_counts = (i :> [k \in 1..Len(rec1.alleles) |-> 0]) @@ @,
                                !.true_alleles = @ + 1]
  IN  [rec2 EXCEPT !.genotypes[Len(rec2.genotypes)] = Append(@, i)]

\* math.ceil(x*min_pct/100.)
Threshold(x, pct) == (x * pct + 99) \div 100

\* without the test 0 in sample_data[marker, allele]
AlleleErrorMissingOnly(sd, marker, allele) ==
  IF <<marker, allele>> \notin DOMAIN sd THEN "Missing allele" ELSE "none"

\* lines 360-366: the ValueError raised for a declared allele, if any
AlleleError(sd, marker, allele) ==
  IF <<marker, allele>> \notin DOMAIN sd THEN "Missing allele"
  ELSE IF 0 \in Range(sd[<<marker, allele>>]) THEN "Allele has 0 reads"
  ELSE "none"

RECURSIVE DeclareAlleles(_, _, _, _, _, _)
\* the loop of lines 360-384 from position a of the marker's alleles; st holds
\* data, the thresholds and the error raised
DeclareAlleles(st, sd, marker, alleles, a, pct) ==
  IF a > Len(alleles) \/ st.error # "none" THEN st
  ELSE LET allele == alleles[a]
           err == AlleleError(sd, marker, allele)
           rec == DeclareAllele(st.data[marker], allele)
           i == IndexOf(rec.alleles, allele)
       IN  IF err # "none" THEN [st EXCEPT !.error = err]
           ELSE DeclareAlleles(
                  [st EXCEPT !.data[marker] = rec,
                             !.thresholds[marker] =
                                (i :> <<Threshold(sd[<<marker, allele>>][1], pct),
                                        Threshold(sd[<<marker, allele>>][2], pct)>>) @@ @],
                  sd, marker, alleles, a + 1, pct)

RECURSIVE DeclareMarkers(_, _, _, _, _, _)
\* the loop of lines 343-384 from position a of the markers of sample_alleles
DeclareMarkers(st, sd, markers, alleleOrder, a, pct) ==
  IF a > Len(markers) \/ st.error # "none" THEN st
  ELSE LET marker == markers[a]
           rec == IF marker \in DOMAIN st.data THEN st.data[marker] ELSE NewMarker
           opened == [st EXCEPT !.data = (marker :> OpenSample(rec)) @@ @,
                                !.thresholds = (marker :> << >>) @@ @]
       IN  DeclareMarkers(DeclareAlleles(opened, sd, marker, alleleOrder[marker], 1, pct),
                          sd, markers, alleleOrder, a + 1, pct)

\* count >= max(min_abs, threshold) in some direction
Detected(counts, threshold, abs) ==
  \E d \in 1..2 : counts[d] >= (IF abs > threshold[d] THEN abs ELSE threshold[d])

\* lines 392-411: enter one line of the sample into its row
EnterCount(rec, thresholds, allele, counts, abs) ==
  LET known == allele \in Range(rec.alleles)
      rec1 == IF known THEN rec ELSE AppendVariant(rec, allele)
      \* i = -1 addresses the last column
      col == IF known THEN IndexOf(rec.alleles, allele) + 1 ELSE Len(rec1.alleles)
      row == Len(rec1.profiles_forward)
  IN  [rec1 EXCEPT !.profiles_forward[row][col] = counts[1],
                   !.profiles_reverse[row][col] = counts[2],
                   !.allele_counts =
                      [gi \in DOMAIN @ |->
                         IF gi \in DOMAIN thresholds /\ Detected(counts, thresholds[gi], abs)
                         THEN [@[gi] EXCEPT ![col] = @ + 1]
                         ELSE @[gi]]]

RECURSIVE EnterCounts(_, _, _, _, _, _)
\* the lines of one marker, in the order of iteration, from position a
EnterCounts(rec, thresholds, sd, marker, entries, a) ==
  IF a = 0 THEN rec
  ELSE EnterCount(EnterCounts(rec, thresholds, sd, marker, entries, a - 1),
                  thresholds, entries[a], sd[<<marker, entries[a]>>], min_abs)

\* the variants of a marker the sample has lines for
Observed(sd, marker) == {x \in Variants : <<marker, x>> \in DOMAIN sd}

\* add_sample_data(data, sample_data, sample_alleles, min_pct, min_abs): the
\* data it leaves and the error it raises.  markerOrder and alleleOrder are
\* the orders in which sample_alleles and its sets are iterated; entryOrder is,
\* per marker, the order in which the keys of sample_data are iterated (lines
\* of different markers touch different records).
AddSampleData(d, sd, sa, markerOrder, alleleOrder, entryOrder) ==
  LET st == DeclareMarkers([data |-> d, thresholds |-> << >>, error |-> "none"],
                           sd, markerOrder, alleleOrder, 1, min_pct)
  IN  IF st.error # "none" THEN [data |-> st.data, error |-> st.error]
      ELSE [data |-> [m \in DOMAIN st.data |->
                        IF m \in Range(markerOrder)
                        THEN EnterCounts(st.data[m], st.thresholds[m], sd, m, entryOrder[m],
                                         Len(entryOrder[m]))
                        ELSE st.data[m]],
            error |-> "none"]

\* ------------------------------------------------------- preprocess_data
RECURSIVE SortedDescending(_)
\* the indices in falling order
SortedDescending(S) ==
  IF S = {} THEN << >>
  ELSE LET most == CHOOSE x \in S : \A y \in S : x >= y
       IN  <<most>> \o SortedDescending(S \ {most})

RECURSIVE Sorted(_)
\* sorted(S) for a set S of integers
Sorted(S) ==
  IF S = {} THEN << >>
  ELSE LET least == CHOOSE x \in S : \A y \in S : x <= y
       IN  <<least>> \o Sorted(S \ {least})

\* counts[gi][i] >= thresholds[gi] for some true allele gi, with
\* thresholds[gi] = min_sample_pct * counts[gi][gi] / 100.
Recurs(counts, i, pct) ==
  \E gi \in DOMAIN counts : counts[gi][i + 1] * 100 >= pct * counts[gi][gi + 1]

\* order: the indices of the true alleles, sorted, then the other columns that
\* recur, in the order of the catalogue
FilterOrder(rec, pct) ==
  LET Kept(i) == i \notin DOMAIN rec.allele_counts /\ Recurs(rec.allele_counts, i, pct)
  IN  Sorted(DOMAIN rec.allele_counts)
        \o SelectSeq([k \in 1..Len(rec.alleles) |-> k - 1], Kept)

\* the index is kept as it was
PositionInUnmapped(order, y) == y

\* order.index(y)
PositionIn(order, y) == (CHOOSE k \in 1..Len(order) : order[k] = y) - 1

\* one marker after lines 425-443; allele_counts is deleted
PreprocessMarker(rec, pct) ==
  LET order == FilterOrder(rec, pct)
      Pick(row) == [k \in 1..Len(order) |-> row[order[k] + 1]]
  IN  [true_alleles |-> rec.true_alleles,
       alleles |-> Pick(rec.alleles),
       profiles_forward |-> [r \in DOMAIN rec.profiles_forward |-> Pick(rec.profiles_forward[r])],
       profiles_reverse |-> [r \in DOMAIN rec.profiles_reverse |-> Pick(rec.profiles_reverse[r])],
       genotypes |-> [r \in DOMAIN rec.genotypes |->
                        [y \in DOMAIN rec.genotypes[r] |->
                           PositionIn(order, rec.genotypes[r][y])]]]

PreprocessData(d, pct) == [m \in DOMAIN d |-> PreprocessMarker(d[m], pct)]

\* ---------------------------------------------------- find_alleles_sample
VARIABLES
  finder_data,     \* data: the [forward, reverse] reads of each (marker, allele)
  min_reads,       \* reads required of the highest allele
  min_allele_pct,  \* reads required of an allele, as a percentage of the highest
  max_noise_pct,   \* the noise limit, as a percentage of the highest allele
  max_alleles,     \* alleles to expect for a marker
  max_noisy,       \* noisy markers allowed for a sample
  todo,            \* the entries of data the first loop has yet to visit
  alleles,         \* alleles[marker]: the reads of each allele candidate
  top_allele,      \* top_allele[marker]: the highest read count
  top_noise,       \* top_noise[marker]: the highest non-allele and its reads
  tojudge,         \* the markers the second loop has yet to visit
  noisy_markers,
  outfile,         \* the lines written: <<marker, total, allele>>
  finder_report,   \* what was written to reportfile
  finder_pc,       \* "read", "judge", "write", "done" or "idle"
  finder_run,      \* 0: a single call; 1, 2: the first and the second of two
                   \* calls with the same data
  finder_first     \* what the first of the two calls wrote

finderVars == <<finder_data, min_reads, min_allele_pct, max_noise_pct, max_alleles,
                max_noisy, todo, alleles, top_allele, top_noise, tojudge,
                noisy_markers, outfile, finder_report, finder_pc, finder_run,
                finder_first>>

FinderLines ==
  {<<"m1", "a">>, <<"m1", "b">>, <<"m2", "a">>, <<"m2", "b">>, <<"m3", "a">>}
FinderPairs == {<<1, 0>>, <<1, 1>>, <<2, 1>>}
MinReadsChoices == {1, 3}
PctChoices == {<<50, 30>>, <<100, 50>>, <<50, 100>>}
MaxAllelesChoices == {1, 2}
MaxNoisyChoices == {1}

\* sum(data[marker, allele])
Reads(d, e) == d[e][1] + d[e][2]

\* reads > top * (pct/100.)
Exceeds(reads, top, pct) == reads * 100 > top * pct

\* reads >= top * (pct/100.)
Reaches(reads, top, pct) == reads * 100 >= top * pct

\* the members of S whose count in al no other member of S exceeds
Highest(al, S) == {x \in S : \A y \in S : al[y] <= al[x]}

\* lines 87-93: at a new highest allele the candidates that fall short are
\* deleted, and the highest of them becomes the highest noise if it has more
\* reads; which of several equal ones is named depends on the order of keys()
Demote(al, noise, top, pct) ==
  LET short == {x \in DOMAIN al : ~Reaches(al[x], top, pct)}
      kept == [x \in DOMAIN al \ short |-> al[x]]
  IN  IF short = {} THEN {[alleles |-> kept, top_noise |-> noise]}
      ELSE {[alleles |-> kept,
             top_noise |-> IF al[x] > noise[2] THEN <<x, al[x]>> ELSE noise] :
              x \in Highest(al, short)}

\* lines 77-100: one entry of data; the states it may leave for its marker
EnterSequence(al, top, noise, allele, reads, pct) ==
  IF reads > top
  THEN {[alleles |-> (allele :> reads) @@ d.alleles, top_allele |-> reads,
         top_noise |-> d.top_noise] : d \in Demote(al, noise, reads, pct)}
  ELSE IF Reaches(reads, top, pct)
  THEN {[alleles |-> (allele :> reads) @@ al, top_allele |-> top, top_noise |-> noise]}
  ELSE IF reads >= noise[2]
  THEN {[alleles |-> al, top_allele |-> top, top_noise |-> <<allele, reads>>]}
  ELSE {[alleles |-> al, top_allele |-> top, top_noise |-> noise]}

\* every candidate stays
Untruncated(al, noise, maxn) == {[alleles |-> al, top_noise |-> noise]}

\* lines 112-118: the max_alleles highest candidates stay and the next one
\* becomes the highest noise; sorted() leaves equal counts in the order of
\* the dictionary
Truncate(al, noise, maxn) ==
  IF Cardinality(DOMAIN al) <= maxn THEN {[alleles |-> al, top_noise |-> noise]}
  ELSE {[alleles |-> [x \in S |-> al[x]], top_noise |-> <<y, al[y]>>] :
          <<S, y>> \in {sy \in (SUBSET (DOMAIN al)) \X (DOMAIN al) :
                         /\ Cardinality(sy[1]) = maxn
                         /\ \A x \in sy[1] : \A z \in DOMAIN al \ sy[1] : al[x] >= al[z]
                         /\ sy[2] \in Highest(al, DOMAIN al \ sy[1])}}

\* no marker is noisy
NoisyNever(noise, top, pct) == FALSE

\* line 119: the marker is noisy
Noisy(noise, top, pct) == Exceeds(noise[2], top, pct)

\* lines 105-136: the verdicts on one marker
JudgeMarker(al, top, noise, minr, maxn, pct) ==
  IF top < minr
  THEN {[alleles |-> << >>, top_noise |-> noise, noisy |-> FALSE, said |-> "too few reads"]}
  ELSE {IF Noisy(t.top_noise, top, pct)
        THEN [alleles |-> << >>, top_noise |-> t.top_noise, noisy |-> TRUE, said |-> "noisy"]
        ELSE [alleles |-> t.alleles, top_noise |-> t.top_noise, noisy |-> FALSE, said |-> "none"] :
          t \in Truncate(al, noise, maxn)}

\* lines 144-150: the lines of the sample
OutputLines(als) ==
  {<<marker, als[marker][x], x>> : <<marker, x>> \in
     {mx \in (DOMAIN als) \X Variants : mx[2] \in DOMAIN als[mx[1]]}}

FinderIdle ==
  /\ finder_data = << >>
  /\ min_reads = 0
  /\ min_allele_pct = 0
  /\ max_noise_pct = 0
  /\ max_alleles = 0
  /\ max_noisy = 0
  /\ todo = {}
  /\ alleles = << >>
  /\ top_allele = << >>
  /\ top_noise = << >>
  /\ tojudge = {}
  /\ noisy_markers = 0
  /\ outfile = {}
  /\ finder_report = {}
  /\ finder_pc = "idle"
  /\ finder_run = 0
  /\ finder_first = << >>

\* find_alleles_sample(data, outfile, reportfile, tag, min_reads, ...) is called
InitFinder ==
  /\ finder_data \in [FinderLines -> FinderPairs]
  /\ min_reads \in MinReadsChoices
  /\ \E pcts \in PctChoices : min_allele_pct = pcts[1] /\ max_noise_pct = pcts[2]
  /\ max_alleles \in MaxAllelesChoices
  /\ max_noisy \in MaxNoisyChoices
  /\ todo = FinderLines
  /\ alleles = << >>
  /\ top_allele = << >>
  /\ top_noise = << >>
  /\ tojudge = {}
  /\ noisy_markers = 0
  /\ outfile = {}
  /\ finder_report = {}
  /\ finder_pc = "read"

\* ------------------------------------- generate_profiles: reading samples
VARIABLES
  allelefile,      \* the allele list parsed from allelefile ({} if None)
  annotations,     \* annotations[tag]: the (marker, allele) pairs that
                   \* get_sample_data returns for the files of the sample
  marker_option,   \* the marker argument as passed ("" if absent)
  marker_value,    \* what the name marker is bound to
  homozygotes,
  tags_todo,       \* the tags the loop of line 469 has yet to visit
  load_pc          \* "read", "done" or "idle"

loadVars == <<allelefile, annotations, marker_option, marker_value, homozygotes,
              tags_todo, load_pc>>

LoadTags == {"s1", "s2", "s3"}
LoadLines == {<<"m1", "a">>, <<"m1", "b">>, <<"m2", "a">>}
MarkerOptions == {"", "m1"}
AlleleFiles == {<< >>, ("s1" :> ("m2" :> {"b"}))}

\* lines 475-480: the annotated alleles are added to the list of the sample
AddAnnotated(al, tag, pairs) ==
  LET old == IF tag \in DOMAIN al THEN al[tag] ELSE << >>
      names == DOMAIN old \cup {e[1] : e \in pairs}
  IN  [k \in names |->
         (IF k \in DOMAIN old THEN old[k] ELSE {}) \cup {e[2] : e \in {f \in pairs : f[1] = k}}]

\* lines 482-486: if marker is true, only its entry is left
Restrict(list, name) ==
  IF name = "" THEN list
  ELSE IF name \in DOMAIN list THEN (name :> list[name])
  ELSE << >>

\* lines 488-490: the entries with more than one allele are deleted
Homozygous(list) == [k \in {j \in DOMAIN list : Cardinality(list[j]) <= 1} |-> list[k]]

\* line 488: the name marker after the loop over keys, which ends at last
AfterLoop(name, keys, last) == IF keys = {} THEN name ELSE last

LoadIdle ==
  /\ allelefile = << >>
  /\ annotations = << >>
  /\ marker_option = ""
  /\ marker_value = ""
  /\ homozygotes = FALSE
  /\ tags_todo = {}
  /\ load_pc = "idle"

\* ----------------------------------------------------- ensure_min_samples
VARIABLES
  allelelist,      \* allelelist[tag][marker]: the true alleles of the sample
  min_samples,
  original,        \* allelelist as it was passed
  marker_names,    \* the markers the outer loop has yet to visit
  cur_marker,      \* the marker of the outer loop
  true_alleles,    \* the sample count of each true allele of the marker
  repeat,
  pass_todo,       \* the alleles the pass of line 326 has yet to visit
  passes,          \* the passes of the while loop made for the marker
  ensure_pc        \* "call", "marker", "pass", "done" or "idle"

ensureVars == <<allelelist, min_samples, original, marker_names, cur_marker,
                true_alleles, repeat, pass_todo, passes, ensure_pc>>

Tags == {"s1", "s2", "s3"}
MinSamplesChoices == {1, 2, 3}

\* what a sample may list for the first and for the second marker
FirstEntries == {{"a"}, {"b"}, {"c"}, {"a", "b"}, {"b", "c"}}
SecondEntries == {{"a"}}

\* the allele lists of one sample
AlleleLists ==
  {<< >>} \cup {("m1" :> x) : x \in FirstEntries} \cup {("m2" :> y) : y \in SecondEntries}
    \cup {("m1" :> x) @@ ("m2" :> y) : x \in FirstEntries, y \in SecondEntries}

\* the samples that list the marker
Listing(al, marker) == {tag \in DOMAIN al : marker \in DOMAIN al[tag]}

\* lines 305-307
MarkerNames(al) == UNION {DOMAIN al[tag] : tag \in DOMAIN al}

\* lines 311-319: the number of samples that list each true allele
CountAlleles(al, marker) ==
  LET listed == UNION {al[tag][marker] : tag \in Listing(al, marker)}
  IN  [x \in listed |-> Cardinality({tag \in Listing(al, marker) : x \in al[tag][marker]})]

\* line 327 without its lower bound
TooFewOrNone(count, minimum) == count < minimum

\* line 327
TooFew(count, minimum) == 0 < count /\ count < minimum

\* line 335, for the samples of lines 329-332
DropEntries(al, marker, dropped) ==
  [tag \in DOMAIN al |->
     IF tag \in dropped
     THEN [k \in DOMAIN al[tag] \ {marker} |-> al[tag][k]]
     ELSE al[tag]]

\* lines 333-334, for the samples of lines 329-332
Decrement(counts, al, marker, dropped) ==
  [x \in DOMAIN counts |->
     counts[x] - Cardinality({tag \in dropped : x \in al[tag][marker]})]

EnsureIdle ==
  /\ allelelist = << >>
  /\ min_samples = 0
  /\ original = << >>
  /\ marker_names = {}
  /\ cur_marker = "-"
  /\ true_alleles = << >>
  /\ repeat = FALSE
  /\ pass_todo = {}
  /\ passes = 0
  /\ ensure_pc = "idle"

\* ensure_min_samples(allelelist, min_samples) is called
InitEnsure ==
  /\ allelelist \in [Tags -> AlleleLists]
  /\ min_samples \in MinSamplesChoices
  /\ original = allelelist
  /\ marker_names = {}
  /\ cur_marker = "-"
  /\ true_alleles = << >>
  /\ repeat = FALSE
  /\ pass_todo = {}
  /\ passes = 0
  /\ ensure_pc = "call"

\* ------------------------------------------- the same call, made twice
VARIABLES
  run,           \* 0: a single call; 1: the call without a reportfile;
                 \* 2: the same call again, with a reportfile
  step,          \* the steps the call has taken
  first          \* the states the call without a reportfile went through

twinVars == <<run, step, first>>

TwinIdle ==
  /\ run = 0
  /\ step = 0
  /\ first = << >>

\* all the call computes: its state without reportfile and what was written
Snapshot ==
  [pc |-> pc, A |-> A, C |-> C, P |-> P, V |-> V, E |-> E, F |-> F,
   v |-> v, w |-> w, p |-> p, prev_score |-> prev_score, cur_score |-> cur_score,
   prev_scorex |-> prev_scorex, cur_scorex |-> cur_scorex, result |-> result]

\* the step just taken is counted, and kept if it is of the first call
Recorded ==
  /\ run' = run
  /\ step' = IF run = 0 THEN step ELSE step + 1
  /\ first' = IF run = 1 THEN Append(first, Snapshot') ELSE first
  /\ UNCHANGED finderVars
  /\ UNCHANGED ensureVars
  /\ UNCHANGED loadVars

\* ------------------------------------------------------------------ inputs
\* the genotype lists over nn true alleles: one or two distinct alleles
GenotypeLists(nn) ==
  {<<j>> : j \in Indices(nn)}
    \cup {g \in Indices(nn) \X Indices(nn) : g[1] # g[2]}

\* every true allele of every sample has a non-zero count, as add_sample_data
\* ensures
Admitted(ss, gs) ==
  \A i \in DOMAIN ss : \A a \in 1..Len(gs[i]) : ss[i][gs[i][a]] # 0

\* the state after lines 80-89
SolverStart(ss, gs, nn, var, rf) ==
  /\ samples = ss
  /\ genotypes = gs
  /\ n = nn
  /\ variance = var
  /\ reportfile = rf
  /\ pc = "enter"
  /\ A = ZeroMatrix(nn, nn)
  /\ P = InitialP(nn, Cardinality(DOMAIN ss[0]))
  /\ C = ZeroMatrix(nn, Cardinality(DOMAIN ss[0]))
  /\ V = << >>
  /\ E = << >>
  /\ F = << >>
  /\ v = 0
  /\ w = 0
  /\ p = 0
  /\ prev_score = FloatMax
  /\ cur_score = FloatMax
  /\ prev_scorex = FloatMax
  /\ cur_scorex = FloatMax
  /\ report = << >>
  /\ result = << >>

\* three samples homozygous for one allele
ExampleSamples ==
  [i \in 0..2 |-> [k \in 0..1 |->
     IF k = 0 THEN 100 ELSE IF i = 0 THEN 10 ELSE IF i = 1 THEN 6 ELSE 14]]

ExampleGenotypes == [i \in 0..2 |-> <<0>>]

InitSolver ==
  \E var \in BOOLEAN, rf \in BOOLEAN :
    \/ \E nn \in 1..MaxAlleles :
         \E m \in nn..MaxProfileSize :
           \E ns \in 1..MaxSamples :
             \E ss \in [Indices(ns) -> [Indices(m) -> 0..MaxCount]] :
               \E gs \in [Indices(ns) -> GenotypeLists(nn)] :
                 /\ Admitted(ss, gs)
                 /\ SolverStart(ss, gs, nn, var, rf)
    \/ SolverStart(ExampleSamples, ExampleGenotypes, 1, var, rf)

\* one sample over the true-allele columns only, whose counts may be zero:
\* the inputs the function accepts but add_sample_data would reject
InjectSolver ==
  \E var \in BOOLEAN, rf \in BOOLEAN :
    \E nn \in 1..MaxAlleles :
      \E ss \in [Indices(1) -> [Indices(nn) -> 0..MaxInjectCount]] :
        \E gs \in [Indices(1) -> GenotypeLists(nn)] :
          /\ \A a \in 1..(Len(gs[0]) - 1) : gs[0][a] < gs[0][a + 1]
          /\ SolverStart(ss, gs, nn, var, rf)

\* the solver is not running
SolverIdle ==
  /\ samples = << >>
  /\ genotypes = << >>
  /\ n = 0
  /\ variance = FALSE
  /\ reportfile = FALSE
  /\ pc = "idle"
  /\ A = << >>
  /\ P = << >>
  /\ C = << >>
  /\ V = << >>
  /\ E = << >>
  /\ F = << >>
  /\ v = 0
  /\ w = 0
  /\ p = 0
  /\ prev_score = FloatMax
  /\ cur_score = FloatMax
  /\ prev_scorex = FloatMax
  /\ cur_scorex = FloatMax
  /\ report = << >>
  /\ result = << >>

\* no sample is being added
AggIdle ==
  /\ data = << >>
  /\ before = << >>
  /\ outcome = "idle"
  /\ calls = 0
  /\ sample_data = << >>
  /\ sample_alleles = << >>
  /\ min_pct = 0
  /\ min_abs = 0
  /\ stage = "idle"
  /\ min_sample_pct = 0
  /\ declared = << >>
  /\ established = << >>

\* the sample files a call may be given: lines for some (marker, allele) keys
SampleDatasOf(L, pairs) == UNION {[K -> pairs] : K \in SUBSET L}
SampleDatas == SampleDatasOf(Lines, ReadPairs)

\* the declared true alleles per marker; a marker the sample does not take
\* part in has the empty set (the code treats an absent marker the same)
SampleAllelesOf(L) ==
  {sa \in [Markers -> SUBSET Variants] : \A m \in Markers : \A x \in sa[m] : <<m, x>> \in L}
SampleAlleles == SampleAllelesOf(Lines)

Declared(sa) == {m \in Markers : sa[m] # {}}

\* an order of iteration for each marker's set
MarkerOrders(S) ==
  {("m1" :> o1) @@ ("m2" :> o2) : o1 \in Orders(S["m1"]), o2 \in Orders(S["m2"])}

AlleleOrders(sa) == MarkerOrders(sa)

EntryOrders(sd) == MarkerOrders([m \in Markers |-> Observed(sd, m)])

\* generate_profiles starts from data = {}
InitAgg ==
  /\ SolverIdle
  /\ data = << >>
  /\ before = << >>
  /\ outcome = "ok"
  /\ calls = 0
  /\ sample_data = << >>
  /\ sample_alleles = << >>
  /\ min_pct \in MinPctChoices
  /\ min_abs \in MinAbsChoices
  /\ stage = "adding"
  /\ min_sample_pct = 0
  /\ declared = [m \in Markers |-> << >>]
  /\ established = [m \in Markers |-> << >>]
  /\ TwinIdle
  /\ FinderIdle
  /\ EnsureIdle
  /\ LoadIdle

\* ----------------------------------------------------------------- actions
\* the values the steps store
EnteredC == EnterSamples(C, samples, genotypes, num_samples)
BalanceA == FillA(n, P, samples, genotypes, num_samples)
NewRow == ProfileRow(E, F, P, p, n)
Residual == Score(C, A, P, n, profile_size)
ExpandedRows == VarianceRows(P, samples, genotypes, n, num_samples)
\* A = np.matrix(A), C = np.matrix(C)
MatrixA(rows) == [r \in Indices(Len(rows)) |-> rows[r + 1].a]
MatrixC(rows) == [r \in Indices(Len(rows)) |-> rows[r + 1].c]
ExpandedA == MatrixA(ExpandedRows)
ExpandedC == MatrixC(ExpandedRows)
NewVarianceRow == VarianceRow(E, F, V, P, p, n)
VarianceResidual == Score(C, A, V, n, profile_size)

\* lines 91-109: enter the samples into C
EnterEvidence ==
  /\ pc = "enter"
  /\ C' = EnteredC
  /\ InRangeMatrix(C')
  /\ report' = IF reportfile
               THEN report \o MissingAlleles(samples, genotypes, num_samples)
               ELSE report
  /\ prev_score' = FloatMax
  /\ cur_score' = FloatMax
  /\ pc' = "fill_a"
  /\ UNCHANGED <<samples, genotypes, n, variance, reportfile, A, P, V, E, F, v, w, p,
                 prev_scorex, cur_scorex, result>>
  /\ UNCHANGED aggVars
  /\ Recorded

\* lines 112-135: fill in A for outer iteration v, E and F
FillBalance ==
  /\ pc = "fill_a"
  /\ A' = BalanceA
  /\ E' = NormalE(A', n)
  /\ F' = NormalF(A', C, n, profile_size)
  /\ InRangeMatrix(A') /\ InRangeMatrix(E') /\ InRangeMatrix(F')
  /\ prev_scorex' = FloatMax
  /\ cur_scorex' = FloatMax
  /\ w' = 0
  /\ p' = 0
  /\ pc' = "row"
  /\ UNCHANGED <<samples, genotypes, n, variance, reportfile, C, P, V, v,
                 prev_score, cur_score, report, result>>
  /\ UNCHANGED aggVars
  /\ Recorded

\* lines 137-150: update row p of P in place
UpdateRow ==
  /\ pc = "row"
  /\ P' = [P EXCEPT ![p] = NewRow]
  /\ InRangeRow(P'[p])
  /\ report' = IF IsZero(E[p][p]) /\ reportfile
               THEN Append(report, <<"No samples appear to have allele", v, p>>)
               ELSE report
  /\ IF p + 1 < n
     THEN p' = p + 1 /\ pc' = "row"
     ELSE p' = p /\ pc' = "sweep_end"
  /\ UNCHANGED <<samples, genotypes, n, variance, reportfile, A, C, V, E, F, v, w,
                 prev_score, cur_score, prev_scorex, cur_scorex, result>>
  /\ UNCHANGED aggVars
  /\ Recorded

\* lines 151-155: the residual of sweep w and the exit of the inner loop
EndSweep ==
  /\ pc = "sweep_end"
  /\ prev_scorex' = cur_scorex
  /\ cur_scorex' = Residual
  /\ InRange(cur_scorex') /\ InRange(ScoreChange(cur_scorex, cur_scorex'))
  /\ IF Converged(cur_scorex, cur_scorex') \/ w + 1 = MaxSweeps
     THEN pc' = "check" /\ w' = w /\ p' = p
     ELSE pc' = "row" /\ w' = w + 1 /\ p' = 0
  /\ UNCHANGED <<samples, genotypes, n, variance, reportfile, A, C, P, V, E, F, v,
                 prev_score, cur_score, report, result>>
  /\ UNCHANGED aggVars
  /\ Recorded

\* lines 157-167: the residual of outer iteration v and the exit of the outer loop
CheckConverged ==
  /\ pc = "check"
  /\ prev_score' = cur_score
  /\ cur_score' = Residual
  /\ InRange(cur_score') /\ InRange(ScoreChange(cur_score, cur_score'))
  /\ report' = IF reportfile THEN Append(report, <<"progress", v, cur_score'>>)
               ELSE report
  /\ IF Converged(cur_score, cur_score') \/ v + 1 = MaxOuterIterations
     THEN pc' = (IF variance THEN "variance" ELSE "return") /\ v' = v
     ELSE pc' = "fill_a" /\ v' = v + 1
  /\ UNCHANGED <<samples, genotypes, n, variance, reportfile, A, C, P, V, E, F, w, p,
                 prev_scorex, cur_scorex, result>>
  /\ UNCHANGED aggVars
  /\ Recorded

\* lines 169-227: the caveat, the expanded A and C, V, E and F
SetUpVariance ==
  /\ pc = "variance"
  /\ \E rows \in {ExpandedRows} : A' = MatrixA(rows) /\ C' = MatrixC(rows)
  /\ V' = ZeroMatrix(n, profile_size)
  /\ E' = NormalE(A', n)
  /\ F' = NormalF(A', C', n, profile_size)
  /\ InRangeMatrix(A') /\ InRangeMatrix(C') /\ InRangeMatrix(E') /\ InRangeMatrix(F')
  /\ report' = IF reportfile
               THEN Append(report,
                      IF ExtraAlleles(genotypes, num_samples) # 0
                      THEN <<"EXPERIMENAL", "not true variances">>
                      ELSE <<"EXPERIMENAL", "population variances">>)
               ELSE report
  /\ prev_scorex' = FloatMax
  /\ cur_scorex' = FloatMax
  /\ w' = 0
  /\ p' = 0
  /\ pc' = "vrow"
  /\ UNCHANGED <<samples, genotypes, n, variance, reportfile, P, v,
                 prev_score, cur_score, result>>
  /\ UNCHANGED aggVars
  /\ Recorded

\* lines 229-238: update row p of V in place
UpdateVarianceRow ==
  /\ pc = "vrow"
  /\ V' = [V EXCEPT ![p] = NewVarianceRow]
  /\ InRangeRow(V'[p])
  /\ IF p + 1 < n
     THEN p' = p + 1 /\ pc' = "vrow"
     ELSE p' = p /\ pc' = "vsweep_end"
  /\ UNCHANGED <<samples, genotypes, n, variance, reportfile, A, C, P, E, F, v, w,
                 prev_score, cur_score, prev_scorex, cur_scorex, report, result>>
  /\ UNCHANGED aggVars
  /\ Recorded

\* lines 239-243: the residual of variance sweep w and the exit of the loop
EndVarianceSweep ==
  /\ pc = "vsweep_end"
  /\ prev_scorex' = cur_scorex
  /\ cur_scorex' = VarianceResidual
  /\ InRange(cur_scorex') /\ InRange(ScoreChange(cur_scorex, cur_scorex'))
  /\ IF Converged(cur_scorex, cur_scorex') \/ w + 1 = MaxVarianceSweeps
     THEN pc' = "return" /\ w' = w /\ p' = p
     ELSE pc' = "vrow" /\ w' = w + 1 /\ p' = 0
  /\ UNCHANGED <<samples, genotypes, n, variance, reportfile, A, C, P, V, E, F, v,
                 prev_score, cur_score, report, result>>
  /\ UNCHANGED aggVars
  /\ Recorded

\* lines 244, 246: return P.tolist() or (P.tolist(), V.tolist())
Return ==
  /\ pc = "return"
  /\ result' = IF variance THEN <<P, V>> ELSE P
  /\ pc' = "done"
  /\ UNCHANGED <<samples, genotypes, n, variance, reportfile, A, C, P, V, E, F, v, w, p,
                 prev_score, cur_score, prev_scorex, cur_scorex, report>>
  /\ UNCHANGED aggVars
  /\ Recorded

\* the true alleles a call makes, in the order of its first loop
NewlyEstablished(known, order) ==
  LET New(x) == x \notin Range(known) IN SelectSeq(order, New)

\* add_sample_data(data, sample_data, sample_alleles, min_pct, min_abs) for the
\* next sample, whose lines are among L with counts among pairs; a ValueError
\* ends the run
AddSampleOf(L, pairs, maxCalls) ==
  /\ calls < maxCalls
  /\ outcome = "ok"
  /\ stage = "adding"
  /\ \E sd \in SampleDatasOf(L, pairs), sa \in SampleAllelesOf(L) :
       \E markerOrder \in Orders(Declared(sa)) :
         \E alleleOrder \in AlleleOrders(sa), entryOrder \in EntryOrders(sd) :
           LET r == AddSampleData(data, sd, sa, markerOrder, alleleOrder, entryOrder)
               ok == r.error = "none"
           IN  /\ data' = r.data
               /\ outcome' = IF ok THEN "ok" ELSE r.error
               /\ sample_data' = sd
               /\ sample_alleles' = sa
               /\ declared' = [m \in Markers |->
                    IF ok /\ sa[m] # {} THEN Append(declared[m], sa[m]) ELSE declared[m]]
               /\ established' = [m \in Markers |->
                    IF ok THEN established[m] \o NewlyEstablished(established[m], alleleOrder[m])
                    ELSE established[m]]
  /\ before' = data
  /\ calls' = calls + 1
  /\ UNCHANGED <<min_pct, min_abs, stage, min_sample_pct>>
  /\ UNCHANGED solverVars
  /\ UNCHANGED twinVars
  /\ UNCHANGED finderVars
  /\ UNCHANGED ensureVars
  /\ UNCHANGED loadVars

AddSample == AddSampleOf(Lines, ReadPairs, MaxCalls)

\* preprocess_data(data, min_sample_pct), once all samples were added
Preprocess ==
  /\ stage = "adding"
  /\ outcome = "ok"
  /\ \E pct \in MinSamplePctChoices :
       /\ min_sample_pct' = pct
       /\ data' = PreprocessData(data, pct)
  /\ before' = data
  /\ stage' = "filtered"
  /\ UNCHANGED <<outcome, calls, sample_data, sample_alleles, min_pct, min_abs,
                 declared, established>>
  /\ UNCHANGED solverVars
  /\ UNCHANGED twinVars
  /\ UNCHANGED finderVars
  /\ UNCHANGED ensureVars
  /\ UNCHANGED loadVars

\* solve_profile_mixture_single(samples, genotypes, n, variance, reportfile)
\* once more, now with a reportfile
Rerun ==
  /\ run = 1
  /\ pc = "done"
  /\ run' = 2
  /\ step' = 0
  /\ reportfile' = TRUE
  /\ pc' = "enter"
  /\ A' = ZeroMatrix(n, n)
  /\ P' = InitialP(n, profile_size)
  /\ C' = ZeroMatrix(n, profile_size)
  /\ V' = << >>
  /\ E' = << >>
  /\ F' = << >>
  /\ v' = 0
  /\ w' = 0
  /\ p' = 0
  /\ prev_score' = FloatMax
  /\ cur_score' = FloatMax
  /\ prev_scorex' = FloatMax
  /\ cur_scorex' = FloatMax
  /\ report' = << >>
  /\ result' = << >>
  /\ UNCHANGED <<samples, genotypes, n, variance, first>>
  /\ UNCHANGED aggVars
  /\ UNCHANGED finderVars
  /\ UNCHANGED ensureVars
  /\ UNCHANGED loadVars

\* lines 76-100: the first loop visits an entry of data
ReadEntry ==
  /\ finder_pc = "read"
  /\ \E e \in todo :
       LET marker == e[1]
           reads == Reads(finder_data, e)
       IN  /\ todo' = todo \ {e}
           /\ IF marker \notin DOMAIN alleles
              THEN /\ alleles' = (marker :> (e[2] :> reads)) @@ alleles
                   /\ top_allele' = (marker :> reads) @@ top_allele
                   /\ top_noise' = (marker :> <<"-", 0>>) @@ top_noise
              ELSE \E t \in EnterSequence(alleles[marker], top_allele[marker],
                                          top_noise[marker], e[2], reads, min_allele_pct) :
                     /\ alleles' = [alleles EXCEPT ![marker] = t.alleles]
                     /\ top_allele' = [top_allele EXCEPT ![marker] = t.top_allele]
                     /\ top_noise' = [top_noise EXCEPT ![marker] = t.top_noise]
           /\ finder_pc' = IF todo' = {} THEN "judge" ELSE "read"
           /\ tojudge' = IF todo' = {} THEN DOMAIN alleles' ELSE tojudge
  /\ UNCHANGED <<finder_data, min_reads, min_allele_pct, max_noise_pct, max_alleles,
                 max_noisy, noisy_markers, outfile, finder_report, finder_run,
                 finder_first>>
  /\ UNCHANGED <<solverVars, aggVars, twinVars, ensureVars, loadVars>>

\* lines 104-136: the second loop visits a marker
CheckMarker ==
  /\ finder_pc = "judge"
  /\ \E marker \in tojudge :
       \E t \in JudgeMarker(alleles[marker], top_allele[marker], top_noise[marker],
                            min_reads, max_alleles, max_noise_pct) :
         /\ alleles' = [alleles EXCEPT ![marker] = t.alleles]
         /\ top_noise' = [top_noise EXCEPT ![marker] = t.top_noise]
         /\ noisy_markers' = IF t.noisy THEN noisy_markers + 1 ELSE noisy_markers
         /\ finder_report' = IF t.said = "none" THEN finder_report
                             ELSE finder_report \cup {<<t.said, marker>>}
         /\ tojudge' = tojudge \ {marker}
         /\ finder_pc' = IF tojudge' = {} THEN "write" ELSE "judge"
  /\ UNCHANGED <<finder_data, min_reads, min_allele_pct, max_noise_pct, max_alleles,
                 max_noisy, todo, top_allele, outfile, finder_run, finder_first>>
  /\ UNCHANGED <<solverVars, aggVars, twinVars, ensureVars, loadVars>>

\* line 140: the sample was dropped
Rejected == <<"contaminated", "-">> \in finder_report

\* find_alleles_sample is called once more with the same data and thresholds,
\* whose entries it may visit in another order
CallAgain ==
  /\ finder_pc = "done"
  /\ finder_run = 1
  /\ finder_run' = 2
  /\ finder_first' = [outfile |-> outfile, rejected |-> Rejected]
  /\ todo' = DOMAIN finder_data
  /\ alleles' = << >>
  /\ top_allele' = << >>
  /\ top_noise' = << >>
  /\ tojudge' = {}
  /\ noisy_markers' = 0
  /\ outfile' = {}
  /\ finder_report' = {}
  /\ finder_pc' = "read"
  /\ UNCHANGED <<finder_data, min_reads, min_allele_pct, max_noise_pct, max_alleles,
                 max_noisy>>
  /\ UNCHANGED <<solverVars, aggVars, twinVars, ensureVars, loadVars>>

\* lines 139-150: the sample is dropped, or its alleles are written
WriteAlleles ==
  /\ finder_pc = "write"
  /\ IF noisy_markers > max_noisy
     THEN /\ finder_report' = finder_report \cup {<<"contaminated", "-">>}
          /\ outfile' = outfile
     ELSE /\ finder_report' = finder_report
          /\ outfile' = OutputLines(alleles)
  /\ finder_pc' = "done"
  /\ UNCHANGED <<finder_data, min_reads, min_allele_pct, max_noise_pct, max_alleles,
                 max_noisy, todo, alleles, top_allele, top_noise, tojudge, noisy_markers,
                 finder_run, finder_first>>
  /\ UNCHANGED <<solverVars, aggVars, twinVars, ensureVars, loadVars>>

\* lines 302-307
EnterEnsure ==
  /\ ensure_pc = "call"
  /\ IF min_samples <= 1
     THEN ensure_pc' = "done" /\ marker_names' = marker_names
     ELSE ensure_pc' = "marker" /\ marker_names' = MarkerNames(allelelist)
  /\ UNCHANGED <<allelelist, min_samples, original, cur_marker, true_alleles, repeat,
                 pass_todo, passes>>
  /\ UNCHANGED <<solverVars, aggVars, twinVars, finderVars, loadVars>>

\* lines 309-325: the next marker is counted and its first pass begins
NextMarker ==
  /\ ensure_pc = "marker"
  /\ IF marker_names = {}
     THEN /\ ensure_pc' = "done"
          /\ UNCHANGED <<marker_names, cur_marker, true_alleles, repeat, pass_todo, passes>>
     ELSE \E marker \in marker_names :
            /\ marker_names' = marker_names \ {marker}
            /\ cur_marker' = marker
            /\ true_alleles' = CountAlleles(allelelist, marker)
            /\ repeat' = FALSE
            /\ pass_todo' = DOMAIN true_alleles'
            /\ passes' = 1
            /\ ensure_pc' = "pass"
  /\ UNCHANGED <<allelelist, min_samples, original>>
  /\ UNCHANGED <<solverVars, aggVars, twinVars, finderVars, loadVars>>

\* lines 326-335: the pass visits a true allele
VisitAllele ==
  /\ ensure_pc = "pass"
  /\ \E true_allele \in pass_todo :
       LET dropped == {tag \in Listing(allelelist, cur_marker) :
                         true_allele \in allelelist[tag][cur_marker]}
       IN  /\ pass_todo' = pass_todo \ {true_allele}
           /\ IF TooFew(true_alleles[true_allele], min_samples)
              THEN /\ repeat' = TRUE
                   /\ true_alleles' = Decrement(true_alleles, allelelist, cur_marker, dropped)
                   /\ allelelist' = DropEntries(allelelist, cur_marker, dropped)
              ELSE UNCHANGED <<repeat, true_alleles, allelelist>>
  /\ UNCHANGED <<min_samples, original, marker_names, cur_marker, passes, ensure_pc>>
  /\ UNCHANGED <<solverVars, aggVars, twinVars, finderVars, loadVars>>

\* lines 324-325: the pass is over; another one follows if it dropped a sample
EndPass ==
  /\ ensure_pc = "pass"
  /\ pass_todo = {}
  /\ IF repeat
     THEN /\ repeat' = FALSE
          /\ pass_todo' = DOMAIN true_alleles
          /\ passes' = passes + 1
          /\ ensure_pc' = "pass"
     ELSE /\ ensure_pc' = "marker"
          /\ UNCHANGED <<repeat, pass_todo, passes>>
  /\ UNCHANGED <<allelelist, min_samples, original, marker_names, cur_marker, true_alleles>>
  /\ UNCHANGED <<solverVars, aggVars, twinVars, finderVars, loadVars>>

\* lines 469-490: the files of the next sample are read
ReadSample ==
  /\ load_pc = "read"
  /\ \E tag \in tags_todo :
       LET listed == AddAnnotated(allelelist, tag, annotations[tag])
           kept == Restrict(listed, marker_value)
       IN  /\ tags_todo' = tags_todo \ {tag}
           /\ IF homozygotes
              THEN /\ \E last \in DOMAIN kept \cup {"-"} :
                        /\ last = "-" <=> DOMAIN kept = {}
                        /\ marker_value' = AfterLoop(marker_value, DOMAIN kept, last)
                   /\ allelelist' = (tag :> Homozygous(kept)) @@ allelelist
              ELSE /\ marker_value' = marker_value
                   /\ allelelist' = (tag :> kept) @@ allelelist
           /\ load_pc' = IF tags_todo' = {} THEN "done" ELSE "read"
  /\ UNCHANGED <<allelefile, annotations, marker_option, homozygotes>>
  /\ UNCHANGED <<min_samples, original, marker_names, cur_marker, true_alleles, repeat,
                 pass_todo, passes, ensure_pc>>
  /\ UNCHANGED <<solverVars, aggVars, twinVars, finderVars>>

vars == <<solverVars, aggVars, twinVars, finderVars, ensureVars, loadVars>>

Init == InitSolver /\ AggIdle /\ TwinIdle /\ FinderIdle /\ EnsureIdle /\ LoadIdle

Next ==
  \/ EnterEvidence
  \/ FillBalance
  \/ UpdateRow
  \/ EndSweep
  \/ CheckConverged
  \/ SetUpVariance
  \/ UpdateVarianceRow
  \/ EndVarianceSweep
  \/ Return

Spec == Init /\ [][Next]_vars

InitInject == InjectSolver /\ AggIdle /\ TwinIdle /\ FinderIdle /\ EnsureIdle /\ LoadIdle

\* the call without a reportfile, to be followed by the call with one
InitTwice ==
  /\ InitSolver
  /\ reportfile = FALSE
  /\ AggIdle
  /\ run = 1
  /\ step = 0
  /\ first = << >>
  /\ FinderIdle
  /\ EnsureIdle
  /\ LoadIdle

NextTwice == Next \/ Rerun

SpecTwice == InitTwice /\ [][NextTwice]_vars

SpecInject == InitInject /\ [][Next]_vars

NextAgg == AddSample \/ Preprocess

\* samples of one marker with three variants
OrderLines == {<<"m1", "a">>, <<"m1", "b">>, <<"m1", "c">>}
OrderPairs == {<<1, 1>>}

AddOrderedSample == AddSampleOf(OrderLines, OrderPairs, MaxCalls)

InitOrder == InitAgg

NextOrder == AddOrderedSample \/ Preprocess

SpecOrder == InitOrder /\ [][NextOrder]_vars

SpecAgg == InitAgg /\ [][NextAgg]_vars

InitFinderSample == InitFinder /\ finder_run = 0 /\ finder_first = << >> /\ SolverIdle /\ AggIdle /\ TwinIdle /\ EnsureIdle /\ LoadIdle

InitEnsureSamples ==
  InitEnsure /\ SolverIdle /\ AggIdle /\ TwinIdle /\ FinderIdle /\ LoadIdle

NextEnsure == EnterEnsure \/ NextMarker \/ VisitAllele \/ EndPass

SpecEnsure == InitEnsureSamples /\ [][NextEnsure]_vars

\* the function keeps running until it returns
SpecEnsureFair == SpecEnsure /\ WF_vars(NextEnsure)

\* generate_profiles(..., marker, tidy, homozygotes, ...) starts reading
InitLoad ==
  /\ allelefile \in AlleleFiles
  /\ annotations \in [LoadTags -> SUBSET LoadLines]
  /\ marker_option \in MarkerOptions
  /\ marker_value = marker_option
  /\ homozygotes \in BOOLEAN
  /\ tags_todo = LoadTags
  /\ load_pc = "read"
  /\ allelelist = allelefile
  /\ min_samples = 0
  /\ original = << >>
  /\ marker_names = {}
  /\ cur_marker = "-"
  /\ true_alleles = << >>
  /\ repeat = FALSE
  /\ pass_todo = {}
  /\ passes = 0
  /\ ensure_pc = "idle"
  /\ SolverIdle /\ AggIdle /\ TwinIdle /\ FinderIdle

NextLoad == ReadSample

SpecLoad == InitLoad /\ [][NextLoad]_vars

NextFinder == ReadEntry \/ CheckMarker \/ WriteAlleles

SpecFinder == InitFinderSample /\ [][NextFinder]_vars

\* the first of two calls with the same data
InitFinderTwice ==
  /\ InitFinder
  /\ finder_run = 1
  /\ finder_first = << >>
  /\ SolverIdle /\ AggIdle /\ TwinIdle /\ EnsureIdle /\ LoadIdle

NextFinderTwice == NextFinder \/ CallAgain

SpecFinderTwice == InitFinderTwice /\ [][NextFinderTwice]_vars

\* ------------------------------------------------------------------ claims
ReturnedP == IF variance THEN result[1] ELSE result

NonNegative(x) == IsFinite(x) /\ x[1] >= 0

\* the value of tmp[k] of row q before clamping, for the current other rows
RawProfile(q, k) == RDiv(RSub(F[q][k], OtherRows(E, P, q, k, n)), E[q][q])

InProfilePhase == pc \in {"row", "sweep_end", "check"}

\* C1: P[j][j] = 100 for every true allele j in every state of the call
\* (after every row update, for degenerate rows, for non-finite values and at
\* the iteration cap) and in the returned matrix.
C1_DiagonalIsHundred ==
  /\ \A j \in Indices(n) : P[j][j] = Hundred
  /\ pc = "done" => \A j \in Indices(n) : ReturnedP[j][j] = Hundred

\* a sweep has passed a degenerate allele and left 100 on its diagonal
C1_Witness ==
  /\ pc = "sweep_end"
  /\ \E q \in Indices(n) : IsZero(E[q][q]) /\ P[q][q] = Hundred

C3_LoopExit ==
  /\ (pc = "sweep_end" /\ pc' = "check") =>
        \/ IsZero(cur_scorex')
        \/ RLt(ScoreChange(prev_scorex', cur_scorex'), Tolerance)
        \/ w = MaxSweeps - 1
  /\ (pc = "check" /\ pc' # "fill_a") =>
        \/ IsZero(cur_score')
        \/ RLt(ScoreChange(prev_score', cur_score'), Tolerance)
        \/ v = MaxOuterIterations - 1
  /\ (pc = "vsweep_end" /\ pc' = "return") =>
        \/ IsZero(cur_scorex')
        \/ RLt(ScoreChange(prev_scorex', cur_scorex'), Tolerance)
        \/ w = MaxVarianceSweeps - 1
  /\ (pc = "return") => (pc' = "done" /\ P' = P /\ V' = V /\ ReturnedP' = P)

\* the values of the next step are within the range of the model
StepFits ==
  CASE pc = "enter" -> InRangeMatrix(EnteredC)
    [] pc = "fill_a" ->
         /\ InRangeMatrix(BalanceA)
         /\ InRangeMatrix(NormalE(BalanceA, n))
         /\ InRangeMatrix(NormalF(BalanceA, C, n, profile_size))
    [] pc = "row" -> InRangeRow(NewRow)
    [] pc = "sweep_end" ->
         InRange(Residual) /\ InRange(ScoreChange(cur_scorex, Residual))
    [] pc = "check" ->
         InRange(Residual) /\ InRange(ScoreChange(cur_score, Residual))
    [] pc = "variance" ->
         /\ InRangeMatrix(ExpandedA) /\ InRangeMatrix(ExpandedC)
         /\ InRangeMatrix(NormalE(ExpandedA, n))
         /\ InRangeMatrix(NormalF(ExpandedA, ExpandedC, n, profile_size))
    [] pc = "vrow" -> InRangeRow(NewVarianceRow)
    [] pc = "vsweep_end" ->
         InRange(VarianceResidual) /\ InRange(ScoreChange(cur_scorex, VarianceResidual))
    [] OTHER -> TRUE

\* the position in the function, counted in steps
SweepSteps == n + 1
OuterSteps == MaxSweeps * SweepSteps + 2
VarianceStart == 1 + MaxOuterIterations * OuterSteps
Position ==
  CASE pc = "enter" -> 0
    [] pc = "fill_a" -> 1 + v * OuterSteps
    [] pc = "row" -> 2 + v * OuterSteps + w * SweepSteps + p
    [] pc = "sweep_end" -> 2 + v * OuterSteps + w * SweepSteps + n
    [] pc = "check" -> 2 + v * OuterSteps + MaxSweeps * SweepSteps
    [] pc = "variance" -> VarianceStart
    [] pc = "vrow" -> VarianceStart + 1 + w * SweepSteps + p
    [] pc = "vsweep_end" -> VarianceStart + 1 + w * SweepSteps + n
    [] pc = "return" -> VarianceStart + 2 + MaxVarianceSweeps * SweepSteps
    [] pc = "done" -> VarianceStart + 3 + MaxVarianceSweeps * SweepSteps

\* C3: the outer loop and the sweeps stay below their caps of 200, no step
\* fails before the return, every step advances the position in the function
\* (which the caps bound, so the call terminates), a loop is left early only
\* on convergence, and the matrices of the last iteration are returned as is.
C3_Terminates ==
  /\ [](/\ v < MaxOuterIterations /\ w < MaxSweeps /\ w < MaxVarianceSweeps
        /\ pc # "done" => StepFits)
  /\ [][C3_LoopExit /\ Position' > Position]_vars

\* a call that ran into the caps of both loops and returned
C3_Witness ==
  /\ pc = "done"
  /\ v = MaxOuterIterations - 1
  /\ w = MaxSweeps - 1
  /\ ~IsZero(cur_score)

\* C4 (as claimed): after a sweep every row of a true allele p with
\* (A^T A)[p,p] = 0 is zero in all its columns, and the anomaly is on record.
C4_DegenerateRowAllZero ==
  pc = "sweep_end" =>
    \A q \in Indices(n) :
      IsZero(E[q][q]) =>
        /\ \A k \in DOMAIN P[q] : P[q][k] = Zero
        /\ reportfile =>
             \E a \in 1..Len(report) : report[a] = <<"No samples appear to have allele", v, q>>

AllFinite(M) == \A j \in DOMAIN M : \A k \in DOMAIN M[j] : IsFinite(M[j][k])

ZeroCountInjected ==
  \E i \in DOMAIN samples : \E a \in 1..Len(genotypes[i]) : samples[i][genotypes[i][a]] = 0

\* C5 (as claimed): with a zero count of a true allele in a sample's own
\* genotype no infinite or NaN value enters A, C, P or V.
C5_NoNonFiniteValue ==
  ZeroCountInjected => AllFinite(A) /\ AllFinite(C) /\ AllFinite(P) /\ AllFinite(V)

InVariancePhase == pc \in {"vrow", "vsweep_end"} \/ (variance /\ pc \in {"return", "done"})

VarianceClamped(Vm, Pm) ==
  \A q \in DOMAIN Vm : \A k \in DOMAIN Vm[q] :
    /\ NonNegative(Vm[q][k])
    /\ k = q => Vm[q][k] = Zero
    /\ Pm[q][k] = Zero => Vm[q][k] = Zero

HomozygotesOnly == \A i \in DOMAIN genotypes : Len(genotypes[i]) = 1

Carriers(j) == {i \in DOMAIN genotypes : genotypes[i] = <<j>>}

RECURSIVE RSumOver(_, _)
RSumOver(f, S) ==
  IF S = {} THEN Zero
  ELSE LET i == CHOOSE x \in S : TRUE IN RAdd(f[i], RSumOver(f, S \ {i}))

AverageProfile(j, k) ==
  RDiv(RSumOver([i \in DOMAIN samples |->
                   RDiv(RMul(Hundred, Num(samples[i][k])), Num(samples[i][j]))],
                Carriers(j)),
       Num(Cardinality(Carriers(j))))

\* C7: for homozygote-only input the balance matrix is diagonal with the
\* sample counts, and the returned profile is the per-allele average of
\* 100 * samples[i][k] / samples[i][j]; the samples [100,10], [100,6],
\* [100,14] of one allele give [[100, 10]].
C7_HomozygoteAverage ==
  HomozygotesOnly =>
    /\ InProfilePhase =>
         \A j \in Indices(n) : \A k \in Indices(n) :
           A[j][k] = IF j = k THEN Num(Cardinality(Carriers(j))) ELSE Zero
    /\ pc = "done" =>
         \A j \in Indices(n) : Carriers(j) # {} =>
           \A k \in DOMAIN ReturnedP[j] : ReturnedP[j][k] = AverageProfile(j, k)
    /\ (pc = "done" /\ samples = ExampleSamples) =>
         ReturnedP = [j \in 0..0 |-> [k \in 0..1 |-> IF k = 0 THEN Hundred ELSE Num(10)]]

\* two samples of the same allele with different noise were averaged
C7_Witness ==
  /\ HomozygotesOnly /\ pc = "done"
  /\ \E j \in Indices(n) : \E k \in DOMAIN ReturnedP[j] :
       /\ Cardinality(Carriers(j)) > 1
       /\ ReturnedP[j][k] # Zero
       /\ \E i \in Carriers(j) :
            ReturnedP[j][k] # RDiv(RMul(Hundred, Num(samples[i][k])), Num(samples[i][j]))

\* two true alleles, two columns, every sample heterozygous with equal counts
BalancedHeterozygotes ==
  /\ n = 2 /\ profile_size = 2
  /\ \A i \in DOMAIN samples :
       Len(genotypes[i]) = 2 /\ samples[i][0] = samples[i][1] /\ samples[i][0] # 0

\* C8: two true alleles, two columns, every sample heterozygous with equal
\* non-zero counts on both: A has four entries num_samples/2 and the returned
\* profile is 100 times the identity.
C8_BalancedIdentity ==
  BalancedHeterozygotes =>
    /\ InProfilePhase =>
         \A j \in Indices(2) : \A k \in Indices(2) : A[j][k] = Norm(num_samples, 2)
    /\ pc = "done" => ReturnedP = InitialP(2, 2)

\* two balanced heterozygous samples were solved
C8_Witness == BalancedHeterozygotes /\ num_samples > 1 /\ pc = "done" /\ ~variance

\* ----------------------------------------------------------------- C9
\* some declared true allele has no line, or a line with a zero count
SampleRejected(sd, sa) ==
  \E m \in Markers : \E x \in sa[m] :
    \/ <<m, x>> \notin DOMAIN sd
    \/ sd[<<m, x>>][1] = 0
    \/ sd[<<m, x>>][2] = 0

\* C9: a call of add_sample_data raises ValueError if and only if, for some
\* marker, a declared true allele of the sample is missing from the sample's
\* data or has a zero forward or reverse count
C9_RaisesIffMissingOrZero ==
  calls > 0 =>
    /\ outcome \in {"ok", "Missing allele", "Allele has 0 reads"}
    /\ outcome # "ok" <=> SampleRejected(sample_data, sample_alleles)

\* a second sample is rejected for a zero reverse count of a true allele that
\* has a line, and a first one was admitted
C9_Witness ==
  /\ calls = 2
  /\ outcome = "Allele has 0 reads"
  /\ \E m \in Markers : \E x \in sample_alleles[m] :
       <<m, x>> \in DOMAIN sample_data /\ sample_data[<<m, x>>] = <<1, 0>>

\* ---------------------------------------------------------------- C10
\* C10: a call of add_sample_data that raises leaves data as it was before
\* the call
C10_RejectedSampleLeavesData ==
  outcome \in {"Missing allele", "Allele has 0 reads"} => data = before

\* the catalogue of a marker lists no variant twice
Distinct(seq) == \A i, j \in 1..Len(seq) : i # j => seq[i] # seq[j]

IsPrefix(old, new) ==
  /\ Len(old) <= Len(new)
  /\ \A k \in 1..Len(old) : new[k] = old[k]

\* every row has a column for every variant of the catalogue
RowsMatchCatalogue(rec) ==
  /\ \A r \in DOMAIN rec.profiles_forward : Len(rec.profiles_forward[r]) = Len(rec.alleles)
  /\ \A r \in DOMAIN rec.profiles_reverse : Len(rec.profiles_reverse[r]) = Len(rec.alleles)
  /\ \A gi \in DOMAIN rec.allele_counts : Len(rec.allele_counts[gi]) = Len(rec.alleles)

\* the rows there were before the call were extended with 0 in the columns the
\* call added: the rows of the earlier samples hold 0 there, and a recurrence
\* count there counts nothing but the sample of the call
OlderRowsZeroFilled(old, new) ==
  \A k \in (Len(old.alleles) + 1)..Len(new.alleles) :
    /\ \A r \in DOMAIN old.profiles_forward : new.profiles_forward[r][k] = 0
    /\ \A r \in DOMAIN old.profiles_reverse : new.profiles_reverse[r][k] = 0
    /\ \A gi \in DOMAIN old.allele_counts : new.allele_counts[gi][k] \in {0, 1}

\* one row in each direction and one genotype list per admitted sample
OneRowPerSample(rec, m) ==
  /\ Len(rec.profiles_forward) = Len(declared[m])
  /\ Len(rec.profiles_reverse) = Len(declared[m])
  /\ Len(rec.genotypes) = Len(declared[m])

\* C11: after successful add_sample_data calls, each marker's catalogue is
\* distinct and only grows at its end (first-sight order), every forward,
\* reverse and recurrence-count row is as long as the catalogue with 0 in the
\* columns added after the row, and the numbers of forward rows, reverse rows
\* and genotype lists equal the number of samples admitted for the marker.
C11_RowsFollowCatalogue ==
  (stage = "adding" /\ outcome = "ok") =>
    \A m \in DOMAIN data :
      /\ Distinct(data[m].alleles)
      /\ RowsMatchCatalogue(data[m])
      /\ OneRowPerSample(data[m], m)
      /\ m \in DOMAIN before =>
            /\ IsPrefix(before[m].alleles, data[m].alleles)
            /\ OlderRowsZeroFilled(before[m], data[m])

C11_Witness ==
  /\ stage = "adding" /\ outcome = "ok" /\ calls = 2
  /\ \E m \in DOMAIN before :
       /\ Len(before[m].profiles_forward) = 1
       /\ Len(data[m].profiles_forward) = 2
       /\ Len(data[m].alleles) > Len(before[m].alleles)

\* the number of admitted samples of marker m that carry the true allele x
Carrying(m, x) == Cardinality({r \in DOMAIN declared[m] : x \in declared[m][r]})

\* the claim's rule for column k (0-based) of the catalogue as it was before
\* preprocess_data: a true allele, or shown by at least pct% of the samples
\* that carry some true allele j
ClaimedKept(m, rec, k, pct) ==
  \/ k \in DOMAIN rec.allele_counts
  \/ \E j \in DOMAIN rec.allele_counts :
       rec.allele_counts[j][k + 1] * 100 >= pct * Carrying(m, rec.alleles[j + 1])

\* C12: preprocess_data keeps every true-allele column, and keeps another
\* column k if and only if for some true allele j the number of samples
\* carrying j that show k above the detection threshold is at least
\* min_sample_pct% of the number of samples carrying j.
C12_KeptIffRecurring ==
  stage = "filtered" =>
    \A m \in DOMAIN data :
      \A k \in 0..(Len(before[m].alleles) - 1) :
        before[m].alleles[k + 1] \in Range(data[m].alleles)
          <=> ClaimedKept(m, before[m], k, min_sample_pct)

\* the variants of a marker that some admitted sample declared
TrueAlleles(m) == UNION Range(declared[m])

\* seq keeps the order its entries have in the catalogue cat
InCatalogueOrder(seq, cat) ==
  \A i, j \in 1..Len(seq) : i < j => IndexOf(cat, seq[i]) < IndexOf(cat, seq[j])

\* the true alleles come first, and the variants after them keep the order in
\* which the filter met them
TrueAllelesFirst(m) ==
  LET count == data[m].true_alleles
      cat == data[m].alleles
  IN  /\ count = Cardinality(TrueAlleles(m))
      /\ count <= Len(cat)
      /\ Range(SubSeq(cat, 1, count)) = TrueAlleles(m)
      /\ InCatalogueOrder(SubSeq(cat, count + 1, Len(cat)), before[m].alleles)

\* the claim as stated: the true alleles stand in the order in which the
\* calls established them as true alleles
C13_EstablishedOrder ==
  stage = "filtered" =>
    \A m \in DOMAIN data :
      /\ TrueAllelesFirst(m)
      /\ SubSeq(data[m].alleles, 1, data[m].true_alleles) = established[m]

\* C13 (amended): after preprocess_data the catalogue of each marker lists the
\* true alleles first, in the order of their first sight by add_sample_data
\* (as a true allele or as noise), followed by the surviving noise variants
\* in the order the filter evaluated them.
C13_FirstSightOrder ==
  stage = "filtered" =>
    \A m \in DOMAIN data :
      /\ TrueAllelesFirst(m)
      /\ InCatalogueOrder(SubSeq(data[m].alleles, 1, data[m].true_alleles),
                          before[m].alleles)

\* a variant seen as noise before another was established, and declared
\* a true allele after it
C13_Witness ==
  /\ stage = "filtered"
  /\ \E m \in DOMAIN data :
       /\ data[m].true_alleles = 3
       /\ SubSeq(data[m].alleles, 1, 3) # established[m]

\* the variants the genotype list of sample row r points at
GenotypeVariants(rec, r) == {rec.alleles[rec.genotypes[r][y] + 1] : y \in DOMAIN rec.genotypes[r]}

\* the columns of the rows are those of the old rows, moved as the catalogue
\* entries were moved
SamePermutation(old, new) ==
  \A k \in 1..Len(new.alleles) :
    LET from == IndexOf(old.alleles, new.alleles[k]) + 1
    IN  /\ \A r \in DOMAIN new.profiles_forward :
             new.profiles_forward[r][k] = old.profiles_forward[r][from]
        /\ \A r \in DOMAIN new.profiles_reverse :
             new.profiles_reverse[r][k] = old.profiles_reverse[r][from]

\* C14: after successful add_sample_data calls followed by preprocess_data,
\* every index in every genotype list is below the recorded number of true
\* alleles of the marker, the catalogue entries at a sample's indices are the
\* variants the sample declared, and the catalogue and all forward and
\* reverse rows underwent the same column permutation.
C14_GenotypesPointAtDeclared ==
  stage = "filtered" =>
    \A m \in DOMAIN data :
      /\ Len(data[m].genotypes) = Len(declared[m])
      /\ \A r \in DOMAIN data[m].genotypes :
           /\ \A y \in DOMAIN data[m].genotypes[r] :
                data[m].genotypes[r][y] \in 0..(data[m].true_alleles - 1)
           /\ GenotypeVariants(data[m], r) = declared[m][r]
           /\ Len(data[m].genotypes[r]) = Cardinality(declared[m][r])
      /\ Len(data[m].profiles_forward) = Len(before[m].profiles_forward)
      /\ Len(data[m].profiles_reverse) = Len(before[m].profiles_reverse)
      /\ \A r \in DOMAIN data[m].profiles_forward :
           Len(data[m].profiles_forward[r]) = Len(data[m].alleles)
      /\ \A r \in DOMAIN data[m].profiles_reverse :
           Len(data[m].profiles_reverse[r]) = Len(data[m].alleles)
      /\ SamePermutation(before[m], data[m])

\* the filter moved a true allele forward, past a variant seen before it
C14_Witness ==
  /\ stage = "filtered"
  /\ \E m \in DOMAIN data :
       \E r \in DOMAIN data[m].genotypes : data[m].genotypes[r] # before[m].genotypes[r]

\* C15: for the same samples, genotypes, n and variance, the call with a
\* reportfile goes through the same sequence of iterations and returns the
\* same matrices as the call without one.
C15_ReportfileChangesNothing ==
  run = 2 =>
    /\ step <= Len(first)
    /\ step > 0 => Snapshot = first[step]
    /\ step = Len(first) => pc = first[Len(first)].pc
    /\ pc = "done" => step = Len(first) /\ result = first[step].result

C15_Witness ==
  /\ run = 2
  /\ pc = "done"
  /\ variance
  /\ reportfile
  /\ v >= 1
  /\ Len(report) > 2

\* the caveat of lines 179-189 was written
CaveatEmitted == \E a \in 1..Len(report) : report[a][1] = "EXPERIMENAL"

\* C16: whenever the call returns variances (variance = True), the warning
\* that they are not true sample variances was emitted with them.
C16_CaveatWithVariances ==
  (pc = "done" /\ variance) => CaveatEmitted

\* the sequences of a marker in the data of the sample
Sequences(m) == {x \in Variants : <<m, x>> \in DOMAIN finder_data}

FinderMarkers == {e[1] : e \in DOMAIN finder_data}

\* the total reads of sequence x of marker m
Total(m, x) == Reads(finder_data, <<m, x>>)

\* the highest read count of the marker
HighestTotal(m) == CHOOSE r \in {Total(m, x) : x \in Sequences(m)} :
                     \A y \in Sequences(m) : Total(m, y) <= r

\* the sequences of the marker that were written
Written(m) == {x \in Sequences(m) : \E l \in outfile : l[1] = m /\ l[3] = x}

\* C17: the alleles written for a marker are its highest sequences: at most
\* max_alleles of them, each with at least min_allele_pct% of the highest
\* read count of the marker, no unwritten sequence has more reads than a
\* written one, and nothing is written if the highest is below min_reads.
C17_WrittenAreHighest ==
  finder_pc = "done" =>
    /\ \A l \in outfile :
         /\ l[1] \in FinderMarkers
         /\ l[3] \in Sequences(l[1])
         /\ l[2] = Total(l[1], l[3])
    /\ \A m \in FinderMarkers :
         /\ Cardinality(Written(m)) <= max_alleles
         /\ \A x \in Written(m) :
              /\ Total(m, x) * 100 >= min_allele_pct * HighestTotal(m)
              /\ \A y \in Sequences(m) \ Written(m) : Total(m, y) <= Total(m, x)
         /\ HighestTotal(m) < min_reads => Written(m) = {}

\* a marker with more candidates than max_alleles, and one with too few reads
C17_Witness ==
  /\ finder_pc = "done"
  /\ max_alleles = 1
  /\ Cardinality(Written("m1")) = 1
  /\ \A x \in Sequences("m1") : Total("m1", x) = 3
  /\ HighestTotal("m2") < min_reads
  /\ Written("m3") # {}

\* the marker has enough reads to be judged
Suitable(m) == HighestTotal(m) >= min_reads

\* the sequences with at least min_allele_pct% of the highest read count
Candidates(m) == {x \in Sequences(m) : Total(m, x) * 100 >= min_allele_pct * HighestTotal(m)}

\* the sets of alleles that may be called: the highest max_alleles candidates
Callable(m) ==
  {S \in SUBSET Candidates(m) :
     /\ \A x \in S : \A y \in Sequences(m) \ S : Total(m, y) <= Total(m, x)
     /\ Cardinality(S) = IF Cardinality(Candidates(m)) > max_alleles THEN max_alleles
                         ELSE Cardinality(Candidates(m))}

\* the read count of the highest sequence that is not called an allele
NoiseTotal(m) ==
  LET S == CHOOSE T \in Callable(m) : TRUE
      rest == {Total(m, y) : y \in Sequences(m) \ S} \cup {0}
  IN  CHOOSE r \in rest : \A q \in rest : q <= r

\* the highest non-allelic sequence of a judged marker exceeds the noise limit
NoisyMarker(m) == Suitable(m) /\ NoiseTotal(m) * 100 > max_noise_pct * HighestTotal(m)

NoisyMarkers == {m \in FinderMarkers : NoisyMarker(m)}

C19_NoisyAtTheLimit ==
  finder_pc = "done" =>
    \A m \in FinderMarkers :
      (Suitable(m) /\ NoiseTotal(m) > 0
         /\ NoiseTotal(m) * 100 >= max_noise_pct * HighestTotal(m))
        => (<<"noisy", m>> \in finder_report /\ Written(m) = {})

\* every allele listed for the marker by a sample of T is listed by at least
\* min_samples samples of T
Supported(al, marker, T) ==
  \A tag \in T : \A x \in al[tag][marker] :
    Cardinality({t \in T : x \in al[t][marker]}) >= min_samples

\* the entries left for the marker are entries that were passed, they support
\* each other, and they include every set of passed entries that does
LargestSupported(marker) ==
  LET left == Listing(allelelist, marker)
  IN  /\ left \subseteq Listing(original, marker)
      /\ \A tag \in left : allelelist[tag][marker] = original[tag][marker]
      /\ Supported(original, marker, left)
      /\ \A T \in SUBSET Listing(original, marker) :
           Supported(original, marker, T) => T \subseteq left

\* what holds when the function has returned
EnsuredAtReturn ==
  ensure_pc = "done" =>
    /\ DOMAIN allelelist = DOMAIN original
    /\ min_samples <= 1 => allelelist = original
    /\ min_samples > 1 => \A marker \in MarkerNames(original) : LargestSupported(marker)

\* every pass but the last of a marker drops an entry of the marker
PassesBounded ==
  ensure_pc = "pass" => passes <= Cardinality(Listing(original, cur_marker)) + 1

\* C20: ensure_min_samples terminates; afterwards, for min_samples > 1, each
\* true allele a sample still lists for a marker is listed by at least
\* min_samples samples, and the entries left are the largest set of entries
\* with that property (an entry is deleted only if one of its alleles cannot
\* reach min_samples); with min_samples <= 1 nothing is changed.
C20_EnsureMinSamples ==
  /\ [](EnsuredAtReturn /\ PassesBounded)
  /\ <>(ensure_pc = "done")

\* a chain of deletions: each dropped sample takes the support of the next
C20_Witness ==
  /\ ensure_pc = "done"
  /\ min_samples = 2
  /\ passes >= 3
  /\ allelelist # original

\* the markers the sample has alleles for, from allelefile and its own files
ListedFor(tag) == AddAnnotated(allelefile, tag, annotations[tag])

\* the markers of the sample that have exactly one true allele
HomozygousMarkers(tag) ==
  {k \in DOMAIN ListedFor(tag) : Cardinality(ListedFor(tag)[k]) = 1}

C22_OrderIndependent ==
  (finder_run = 2 /\ finder_pc = "done") =>
    /\ outfile = finder_first.outfile
    /\ Rejected = finder_first.rejected

====
